---------------------------- MODULE Spec2Model ----------------------------
(***************************************************************************)
(* One proxy connection of simple_proxy: ProxyConnection::handle_request   *)
(* (src/src/main.rs) driving parse_http_request (src/src/http_parser.rs).  *)
(*                                                                         *)
(* A byte is a one-character string ("G", " ", "\r", ...); two bytes that  *)
(* have no printable form are named "NUL" (0x00) and "xFF" (0xFF, never    *)
(* valid UTF-8).  A byte string is a sequence of bytes.  The text of a     *)
(* synthetic response is kept as a TLA+ string, built by string            *)
(* concatenation exactly as format! builds it.                             *)
(***************************************************************************)
EXTENDS Integers, Sequences, FiniteSets, TLC

VARIABLES
    wire,         \* the parts the client's byte stream was rendered from
    stream,       \* the bytes the client sends, in order, if it never hangs up
    pos,          \* how many bytes of stream the proxy has read so far
    eof,          \* a client read has returned 0 (the client hung up at pos)
    client_buffer,\* ProxyConnection.client_buffer: its bytes
    cap,          \* ProxyConnection.client_buffer.capacity()
    pc,           \* where handle_request is
    req,          \* the ParsedRequest, once parsed
    parsed_len,   \* bytes the successful parse consumed
    result,       \* what handle_request returned
    clientOps,    \* calls made on the client socket's write side, in order
    connects,     \* TcpStream::connect calls made
    upstream,     \* the upstream socket: "none", "connected" or "failed"
    upstreamOps,  \* write_all calls made on the upstream socket, in order
    fwd,          \* forward_request_to_upstream: writes completed so far
    c2u,          \* relay, client -> upstream copy: "idle", "run", "done", "failed"
    u2c,          \* relay, upstream -> client copy: "idle", "run", "done", "failed"
    upos,         \* bytes of the upstream's response read so far
    relayed       \* bytes the relay has written to the client

vars == <<wire, stream, pos, eof, client_buffer, cap, pc, req, parsed_len,
          result, clientOps, connects, upstream, upstreamOps, fwd, c2u, u2c,
          upos, relayed>>

-----------------------------------------------------------------------------
(* Bounds of the model *)

\* Capacity of the client buffer.  The program allocates 4096 bytes
\* (src/src/main.rs:81); the model keeps every comparison against the
\* capacity and scales the number so that streams that fill the buffer can
\* be enumerated.  It has to hold a head of HeaderLimit + 1 short headers.
Capacity == 96

\* Longest request body the client sends after the head.
MaxBody == 2

\* Bytes in the upstream's response.
MaxResp == 2

\* Most headers in a head put together from the header shapes below.
MaxShortHeaders == 2

(* Program constants *)

\* [EMPTY_HEADER; 16]
HeaderLimit == 16

\* BytesMut's BufMut::chunk_mut reserves 64 bytes when len == capacity.
Reserve == 64

-----------------------------------------------------------------------------
(* Bytes *)

CR == "\r"
LF == "\n"
SP == " "
HT == "\t"
CRLF == <<CR, LF>>

\* Separators of RFC 7230 and the control bytes: never part of a token.
Separators == {"(", ")", ",", "/", ":", ";", "<", "=", ">", "?", "@", "[",
               "\\", "]", "{", "}", "\"", SP, HT}
Controls == {CR, LF, "NUL"}
HighBytes == {"xFF", "xEF", "xBF", "xBD"}

\* httparse::is_method_token / is_header_name_token: an RFC 7230 tchar.
is_token(b) == b \notin Separators /\ b \notin Controls /\ b \notin HighBytes

\* httparse::is_uri_token: a visible ASCII byte.
is_uri_token(b) == b \notin Controls /\ b \notin {SP, HT} /\ b \notin HighBytes

\* httparse::is_header_value_token: HTAB, SP, visible ASCII, obs-text.
is_header_value_token(b) == b \notin Controls

Min(a, b) == IF a < b THEN a ELSE b

Take(s, n) == SubSeq(s, 1, Min(n, Len(s)))
Drop(s, n) == SubSeq(s, n + 1, Len(s))

RECURSIVE Flatten(_)
Flatten(ss) == IF ss = <<>> THEN <<>> ELSE Head(ss) \o Flatten(Tail(ss))

RECURSIVE Repeat(_, _)
Repeat(b, n) == IF n <= 0 THEN <<>> ELSE <<b>> \o Repeat(b, n - 1)

-----------------------------------------------------------------------------
(* httparse::Request::parse, as called at src/src/http_parser.rs:20 with   *)
(* the default ParserConfig.  Every scanner takes the buffer and the index *)
(* of the next unread byte and answers with st = "complete" (and the index *)
(* after what it consumed), "partial" (the buffer ended first) or "error". *)

Partial == [st |-> "partial"]
Err(kind) == [st |-> "error", kind |-> kind]

\* skip_empty_lines: CRLF or LF before the request line are skipped.
RECURSIVE skip_empty_lines(_, _)
skip_empty_lines(buf, i) ==
    IF i > Len(buf) THEN Partial
    ELSE IF buf[i] = CR THEN
        IF i + 1 > Len(buf) THEN Partial
        ELSE IF buf[i + 1] = LF THEN skip_empty_lines(buf, i + 2)
        ELSE Err("NewLine")
    ELSE IF buf[i] = LF THEN skip_empty_lines(buf, i + 1)
    ELSE [st |-> "complete", pos |-> i]

\* Index of the first byte at or after i that fails the class test, or
\* Len(buf) + 1 (simd::match_*_vectored and the byte loops).
RECURSIVE scan_token(_, _)
scan_token(buf, i) ==
    IF i <= Len(buf) /\ is_token(buf[i]) THEN scan_token(buf, i + 1) ELSE i

RECURSIVE scan_uri(_, _)
scan_uri(buf, i) ==
    IF i <= Len(buf) /\ is_uri_token(buf[i]) THEN scan_uri(buf, i + 1) ELSE i

RECURSIVE scan_value(_, _)
scan_value(buf, i) ==
    IF i <= Len(buf) /\ is_header_value_token(buf[i])
    THEN scan_value(buf, i + 1) ELSE i

RECURSIVE scan_space(_, _)
scan_space(buf, i) ==
    IF i <= Len(buf) /\ buf[i] \in {SP, HT} THEN scan_space(buf, i + 1) ELSE i

\* parse_method / parse_token: a non-empty token, then one space.  j is the
\* index of the first byte after the token.
method_end(buf, i, j) ==
    IF j > Len(buf) THEN Partial
    ELSE IF buf[j] = SP
         THEN [st |-> "complete", pos |-> j + 1, val |-> SubSeq(buf, i, j - 1)]
         ELSE Err("Token")

parse_method(buf, i) ==
    IF i > Len(buf) THEN Partial
    ELSE IF ~is_token(buf[i]) THEN Err("Token")
    ELSE method_end(buf, i, scan_token(buf, i + 1))

\* parse_uri: a non-empty run of URI bytes, then one space.
uri_end(buf, i, j) ==
    IF j > Len(buf) THEN Partial
    ELSE IF buf[j] = SP /\ j > i
         THEN [st |-> "complete", pos |-> j + 1, val |-> SubSeq(buf, i, j - 1)]
         ELSE Err("Token")

parse_uri(buf, i) == uri_end(buf, i, scan_uri(buf, i))

HTTP1x == <<"H", "T", "T", "P", "/", "1", ".">>

\* The bytes at i agree with "HTTP/1." as far as the buffer goes.
PrefixAgrees(buf, i) ==
    \A k \in 1..Min(Len(HTTP1x), Len(buf) - i + 1) : buf[i + k - 1] = HTTP1x[k]

\* Mutant of parse_version: a version cut short by the end of the buffer is
\* taken for a bad version instead of an incomplete one.
parse_version_whole_only(buf, i) ==
    IF i + 7 <= Len(buf) /\ SubSeq(buf, i, i + 6) = HTTP1x
       /\ buf[i + 7] \in {"0", "1"}
    THEN [st |-> "complete", pos |-> i + 8,
          val |-> IF buf[i + 7] = "0" THEN 0 ELSE 1]
    ELSE Err("Version")

\* parse_version: with 8 bytes at hand they must be HTTP/1.0 or HTTP/1.1;
\* with fewer, the bytes present must start "HTTP/1." and the answer is
\* Partial.
parse_version(buf, i) ==
    IF i + 7 <= Len(buf) THEN
        IF SubSeq(buf, i, i + 6) = HTTP1x /\ buf[i + 7] \in {"0", "1"}
        THEN [st |-> "complete", pos |-> i + 8,
              val |-> IF buf[i + 7] = "0" THEN 0 ELSE 1]
        ELSE Err("Version")
    ELSE IF PrefixAgrees(buf, i) THEN Partial ELSE Err("Version")

\* newline!: CRLF or LF.
newline(buf, i) ==
    IF i > Len(buf) THEN Partial
    ELSE IF buf[i] = CR THEN
        IF i + 1 > Len(buf) THEN Partial
        ELSE IF buf[i + 1] = LF THEN [st |-> "complete", pos |-> i + 2]
        ELSE Err("NewLine")
    ELSE IF buf[i] = LF THEN [st |-> "complete", pos |-> i + 1]
    ELSE Err("NewLine")

\* A header value without its trailing spaces and tabs.
RECURSIVE trim_end(_)
trim_end(v) ==
    IF v # <<>> /\ v[Len(v)] \in {SP, HT} THEN trim_end(SubSeq(v, 1, Len(v) - 1))
    ELSE v

\* The end of a header value at j, the first byte that is no value byte:
\* CRLF or LF ends the line, anything else is an error.  The value starts
\* at from; skip is the length of the line end.
value_line(buf, from, j, skip) ==
    [st |-> "complete", pos |-> j + skip,
     val |-> trim_end(SubSeq(buf, from, j - 1))]

value_end(buf, from, j) ==
    IF j > Len(buf) THEN Partial
    ELSE IF buf[j] = CR THEN
        IF j + 1 > Len(buf) THEN Partial
        ELSE IF buf[j + 1] = LF THEN value_line(buf, from, j, 2)
        ELSE Err("HeaderValue")
    ELSE IF buf[j] = LF THEN value_line(buf, from, j, 1)
    ELSE Err("HeaderValue")

\* One header line from its first byte at i (known to be a token byte):
\* the name up to the colon at j, the white space after the colon skipped,
\* the value from v up to the end of the line.
header_line_end(buf, i, j, r) ==
    IF r.st = "complete"
    THEN [st |-> "complete", pos |-> r.pos,
          name |-> SubSeq(buf, i, j - 1), value |-> r.val]
    ELSE r

header_value(buf, i, j, v) ==
    header_line_end(buf, i, j, value_end(buf, v, scan_value(buf, v)))

header_name_end(buf, i, j) ==
    IF j > Len(buf) THEN Partial
    ELSE IF buf[j] # ":" THEN Err("HeaderName")
    ELSE header_value(buf, i, j, scan_space(buf, j + 1))

parse_header_line(buf, i) == header_name_end(buf, i, scan_token(buf, i))

\* Mutant of take_slot: with no slot left the header is dropped and the
\* parse goes on.
RECURSIVE parse_headers(_, _, _, _)
take_slot_or_drop(buf, hs, limit, h) ==
    IF h.st # "complete" THEN h
    ELSE parse_headers(buf, h.pos,
                       IF Len(hs) >= limit THEN hs
                       ELSE Append(hs, [name |-> h.name, value |-> h.value]),
                       limit)

\* parse_headers_iter_uninit: header lines until the empty line.  A header
\* slot is taken only after the whole line has been scanned; with no slot
\* left the answer is TooManyHeaders.  hs are the slots filled so far, h the
\* line just scanned.
take_slot(buf, hs, limit, h) ==
    IF h.st # "complete" THEN h
    ELSE IF Len(hs) >= limit THEN Err("TooManyHeaders")
    ELSE parse_headers(buf, h.pos,
                       Append(hs, [name |-> h.name, value |-> h.value]), limit)

parse_headers(buf, i, hs, limit) ==
    IF i > Len(buf) THEN Partial
    ELSE IF buf[i] = CR THEN
        IF i + 1 > Len(buf) THEN Partial
        ELSE IF buf[i + 1] = LF
             THEN [st |-> "complete", pos |-> i + 2, headers |-> hs]
             ELSE Err("NewLine")
    ELSE IF buf[i] = LF THEN [st |-> "complete", pos |-> i + 1, headers |-> hs]
    ELSE IF ~is_token(buf[i]) THEN Err("HeaderName")
    ELSE take_slot(buf, hs, limit, parse_header_line(buf, i))

\* Request::parse: empty lines, method, path, version, end of line, headers,
\* each step taken once the one before it is complete.  On "complete", len
\* is the number of bytes of the head.
request_done(m, u, v, h) ==
    IF h.st # "complete" THEN h
    ELSE [st |-> "complete", len |-> h.pos - 1, method |-> m.val,
          path |-> u.val, version |-> v.val, headers |-> h.headers]

after_newline(buf, limit, m, u, v, n) ==
    IF n.st # "complete" THEN n
    ELSE request_done(m, u, v, parse_headers(buf, n.pos, <<>>, limit))

after_version(buf, limit, m, u, v) ==
    IF v.st # "complete" THEN v
    ELSE after_newline(buf, limit, m, u, v, newline(buf, v.pos))

after_uri(buf, limit, m, u) ==
    IF u.st # "complete" THEN u
    ELSE after_version(buf, limit, m, u, parse_version(buf, u.pos))

after_method(buf, limit, m) ==
    IF m.st # "complete" THEN m
    ELSE after_uri(buf, limit, m, parse_uri(buf, m.pos))

after_empty_lines(buf, limit, e) ==
    IF e.st # "complete" THEN e
    ELSE after_method(buf, limit, parse_method(buf, e.pos))

Request_parse(buf, limit) ==
    after_empty_lines(buf, limit, skip_empty_lines(buf, 1))

-----------------------------------------------------------------------------
(* src/src/http_parser.rs *)

EMPTY_HEADER == [name |-> <<>>, value |-> <<>>]

\* The header array after the parse: the filled slots, then EMPTY_HEADER.
HeaderSlots(hs) ==
    [k \in 1..HeaderLimit |-> IF k <= Len(hs) THEN hs[k] ELSE EMPTY_HEADER]

\* .take_while(|h| h.name != "")
RECURSIVE take_while_named(_)
take_while_named(slots) ==
    IF slots = <<>> \/ Head(slots).name = <<>> THEN <<>>
    ELSE <<Head(slots)>> \o take_while_named(Tail(slots))

\* String::from_utf8_lossy: a byte that is no valid UTF-8 becomes U+FFFD,
\* three bytes.  Of the bytes a stream is made of only xFF is invalid.
RECURSIVE from_utf8_lossy(_)
from_utf8_lossy(v) ==
    IF v = <<>> THEN <<>>
    ELSE (IF Head(v) = "xFF" THEN <<"xEF", "xBF", "xBD">> ELSE <<Head(v)>>)
         \o from_utf8_lossy(Tail(v))

\* The header list of ParsedRequest (http_parser.rs:29-33).
collect_headers(hs) ==
    LET named == take_while_named(HeaderSlots(hs)) IN
    [k \in 1..Len(named) |->
        [name |-> named[k].name, value |-> from_utf8_lossy(named[k].value)]]

\* Mutant of parse_outcome: the buffer is emptied when the parse fails.
parse_outcome_clears(buffer, status) ==
    IF status.st = "error" THEN
        [ret |-> "Err", kind |-> status.kind, buffer |-> <<>>]
    ELSE IF status.st = "complete" THEN
        [ret |-> "Some",
         parsed_req |-> [method |-> status.method, path |-> status.path,
                         version |-> status.version,
                         headers |-> collect_headers(status.headers)],
         parsed_len |-> status.len,
         buffer |-> Drop(buffer, status.len)]
    ELSE [ret |-> "None", buffer |-> buffer]

\* parse_http_request: ret is "Some" (with parsed_req), "None" or "Err";
\* buffer is the buffer as the call leaves it.  status is what req.parse
\* answered.
parse_outcome(buffer, status) ==
    IF status.st = "error" THEN
        [ret |-> "Err", kind |-> status.kind, buffer |-> buffer]
    ELSE IF status.st = "complete" THEN
        [ret |-> "Some",
         parsed_req |-> [method |-> status.method, path |-> status.path,
                         version |-> status.version,
                         headers |-> collect_headers(status.headers)],
         parsed_len |-> status.len,
         buffer |-> Drop(buffer, status.len)]
    ELSE [ret |-> "None", buffer |-> buffer]

parse_http_request(buffer) ==
    parse_outcome(buffer, Request_parse(buffer, HeaderLimit))

-----------------------------------------------------------------------------
(* The client: what it puts on the wire *)

GET == <<"G", "E", "T">>
HTTP11 == HTTP1x \o <<"1">>
HTTP10 == HTTP1x \o <<"0">>

Hdr(name, sep, value, trail) ==
    [name |-> name, sep |-> sep, value |-> value, trail |-> trail]

Wire(lead, method, path, version, eol, headers, body) ==
    [lead |-> lead, method |-> method, path |-> path, version |-> version,
     eol |-> eol, headers |-> headers, body |-> body]

RenderHeader(h, eol) == h.name \o <<":">> \o h.sep \o h.value \o h.trail \o eol

RenderHead(w) ==
    w.lead \o w.method \o <<SP>> \o w.path \o <<SP>> \o w.version \o w.eol
    \o Flatten([k \in 1..Len(w.headers) |-> RenderHeader(w.headers[k], w.eol)])
    \o w.eol

Render(w) == RenderHead(w) \o w.body

Digits == <<"1", "2", "3", "4", "5", "6", "7", "8", "9", "0">>
Digit(k) == Digits[((k - 1) % 10) + 1]

\* A body of n bytes, all different from their neighbours.
Body(n) == [k \in 1..n |-> Digit(k)]
Bodies == {Body(0), Body(MaxBody)}

\* Request lines: good ones, the "not a request" line, a version that is
\* not 1.0 or 1.1.
GoodRequestLines ==
    { [lead |-> <<>>, method |-> GET, path |-> <<"/", "x">>, version |-> HTTP11],
      [lead |-> <<>>, method |-> <<"P", "U", "T">>, path |-> <<"/">>,
       version |-> HTTP10] }
BadRequestLines ==
    { [lead |-> <<>>, method |-> <<"n", "o", "t">>, path |-> <<"a">>,
       version |-> <<"r", "e", "q", "u", "e", "s", "t">>],
      [lead |-> <<>>, method |-> GET, path |-> <<"/">>,
       version |-> HTTP1x \o <<"2">>] }

\* Header shapes: plain, upper case with a trailing space, a byte that is
\* not UTF-8, a space in the name, a NUL in the value.
HeaderShapes ==
    { Hdr(<<"H", "o", "s", "t">>, <<SP>>, <<"a">>, <<>>),
      Hdr(<<"A">>, <<>>, <<"b">>, <<SP>>),
      Hdr(<<"a">>, <<SP>>, <<"xFF">>, <<>>),
      Hdr(<<"a", SP, "b">>, <<>>, <<"c">>, <<>>),
      Hdr(<<"a">>, <<>>, <<"NUL">>, <<>>) }

HeaderSeqs == UNION { [1..n -> HeaderShapes] : n \in 0..MaxShortHeaders }

ShortWires ==
    { Wire(rl.lead, rl.method, rl.path, rl.version, eol, hs, body) :
        rl \in GoodRequestLines, eol \in {CRLF, <<LF>>}, hs \in HeaderSeqs,
        body \in Bodies }
    \cup { Wire(rl.lead, rl.method, rl.path, rl.version, eol, <<>>, <<>>) :
        rl \in BadRequestLines, eol \in {CRLF, <<LF>>} }

\* Heads that follow an empty line, which the parser skips.
LeadWires ==
    { Wire(eol, GET, <<"/", "x">>, HTTP11, eol, hs, Body(MaxBody)) :
        eol \in {CRLF, <<LF>>}, hs \in {<<>>} \cup [1..1 -> HeaderShapes] }

\* Heads around the header limit: n three-byte header lines "a:", "B:", ...
Letters == <<"a", "B", "a", "c">>
LimitHeader(k, pad) ==
    Hdr(<<Letters[((k - 1) % 4) + 1]>>, <<>>, Repeat("v", pad), <<>>)
LimitWire(n, pad, body) ==
    Wire(<<>>, GET, <<"/">>, HTTP11, <<LF>>,
         [k \in 1..n |-> LimitHeader(k, pad)], body)
LimitWires ==
    { LimitWire(n, 0, body) :
        n \in (HeaderLimit - 1)..(HeaderLimit + 2), body \in Bodies }
    \cup { LimitWire(HeaderLimit + 1, Capacity \div HeaderLimit, <<>>) }

\* Heads around the capacity: the path, or the value of the one header,
\* padded so that the head is d bytes longer than the buffer.
PathWire(d, body) ==
    Wire(<<>>, GET, <<"/">> \o Repeat("p", Capacity - 18 + d), HTTP11, CRLF,
         <<>>, body)
ValueWire(d, body) ==
    Wire(<<>>, GET, <<"/">>, HTTP11, CRLF,
         <<Hdr(<<"h">>, <<SP>>, Repeat("v", Capacity - 23 + d), <<>>)>>, body)
CapacityWires ==
    { PathWire(d, body) : d \in {-1, 0, 1}, body \in Bodies }
    \cup { ValueWire(d, body) : d \in {0, 1}, body \in Bodies }

Wires == ShortWires \cup LeadWires \cup LimitWires \cup CapacityWires

\* What the upstream answers, if it is asked and never hangs up.
UpstreamResponse == [k \in 1..MaxResp |-> Digit(k)]

-----------------------------------------------------------------------------
(* src/src/main.rs *)

\* A call on the write side of the client socket and whether it succeeded.
WriteAll(data, ok) == [op |-> "write_all", data |-> data, ok |-> ok]
Shutdown(ok) == [op |-> "shutdown", data |-> "", ok |-> ok]

\* Mutant of http_error_response: Content-Length is the length of the
\* message, not of the body built from it.
http_error_response_short(status_code, message) ==
    LET response_body ==
            "<h1>" \o ToString(status_code) \o " " \o message \o "</h1>"
    IN  "HTTP/1.1 " \o ToString(status_code) \o " " \o message
        \o "\r\nContent-Type: text/html\r\nContent-Length: "
        \o ToString(Len(message))
        \o "\r\nConnection: close\r\n\r\n" \o response_body

\* The text send_http_error formats (main.rs:86-90).
http_error_response(status_code, message) ==
    LET response_body ==
            "<h1>" \o ToString(status_code) \o " " \o message \o "</h1>"
    IN  "HTTP/1.1 " \o ToString(status_code) \o " " \o message
        \o "\r\nContent-Type: text/html\r\nContent-Length: "
        \o ToString(Len(response_body))
        \o "\r\nConnection: close\r\n\r\n" \o response_body

\* Mutant of send_http_error: a failed write is tried once more.
send_http_error_retry(status_code, message) ==
    LET response == http_error_response(status_code, message) IN
    { <<WriteAll(response, FALSE), WriteAll(response, TRUE), Shutdown(TRUE)>>,
      <<WriteAll(response, TRUE), Shutdown(FALSE)>>,
      <<WriteAll(response, TRUE), Shutdown(TRUE)>> }

\* Mutant of send_http_error: a failed shutdown is tried once more.
send_http_error_reshutdown(status_code, message) ==
    LET response == http_error_response(status_code, message) IN
    { <<WriteAll(response, FALSE)>>,
      <<WriteAll(response, TRUE), Shutdown(FALSE), Shutdown(TRUE)>>,
      <<WriteAll(response, TRUE), Shutdown(TRUE)>> }

\* Mutant of send_http_error: the socket is not shut down after the write.
send_http_error_no_shutdown(status_code, message) ==
    LET response == http_error_response(status_code, message) IN
    { <<WriteAll(response, FALSE)>>,
      <<WriteAll(response, TRUE)>> }

\* send_http_error: the calls it makes on the client socket, for each way
\* the socket can answer: the write fails (and `?` returns), or the write
\* succeeds and the shutdown succeeds or fails.
send_http_error(status_code, message) ==
    LET response == http_error_response(status_code, message) IN
    { <<WriteAll(response, FALSE)>>,
      <<WriteAll(response, TRUE), Shutdown(FALSE)>>,
      <<WriteAll(response, TRUE), Shutdown(TRUE)>> }

\* Mutant of buffer_full: the buffer counts as full one byte early.
buffer_full_one_early(buffer, capacity) == Len(buffer) >= capacity - 1

\* Mutant of buffer_full: the test is > where the code has ==.
buffer_full_never(buffer, capacity) == Len(buffer) > capacity

\* The buffer is full and the head is still incomplete (main.rs:104).
buffer_full(buffer, capacity) == Len(buffer) = capacity

\* Mutant of spare_capacity: a read may bring as many bytes as the buffer
\* holds when empty, whatever it holds already.
spare_capacity_whole(buffer, capacity) == capacity

\* The room read_buf has to read into: the spare capacity, or, with none
\* left, what BytesMut reserves.
spare_capacity(buffer, capacity) ==
    IF Len(buffer) = capacity THEN Reserve ELSE capacity - Len(buffer)

\* read_and_parse_request, from the top of the loop to the read or to its
\* return (main.rs:98-108, 125-129).  r is what parse_http_request answered.
OnParsed(r) ==
    IF r.ret = "Some" THEN
        /\ req' = r.parsed_req
        /\ parsed_len' = r.parsed_len
        /\ client_buffer' = r.buffer
        /\ cap' = cap - r.parsed_len
        /\ pc' = "connect"
        /\ UNCHANGED <<result, clientOps>>
    ELSE IF r.ret = "None" THEN
        /\ client_buffer' = r.buffer
        /\ IF buffer_full(r.buffer, cap) THEN
                /\ \E ops \in send_http_error(413, "Payload Too Large") :
                        clientOps' = clientOps \o ops
                /\ result' = "HttpErrorSent"
                /\ pc' = "closed"
           ELSE /\ pc' = "read"
                /\ UNCHANGED <<result, clientOps>>
        /\ UNCHANGED <<req, parsed_len, cap>>
    ELSE /\ client_buffer' = r.buffer
         /\ \E ops \in send_http_error(400, "Bad Request") :
                clientOps' = clientOps \o ops
         /\ result' = "HttpErrorSent"
         /\ pc' = "closed"
         /\ UNCHANGED <<req, parsed_len, cap>>

ParseStep ==
    /\ pc = "parse"
    /\ OnParsed(parse_http_request(client_buffer))
    /\ UNCHANGED <<wire, stream, pos, eof, connects, upstream, upstreamOps,
                   fwd, c2u, u2c, upos, relayed>>

\* Mutant of on_read_zero: a client that hangs up in the middle of a head
\* is answered like one that sent a malformed head.
on_read_zero_400(buffer) ==
    IF buffer = <<>>
    THEN [result |-> "ClientDisconnected", ops |-> {<<>>}]
    ELSE [result |-> "HttpErrorSent", ops |-> send_http_error(400, "Bad Request")]

\* Mutant of on_read_zero: the end of the stream is reported as a failed
\* read.
on_read_zero_io(buffer) ==
    [result |-> "Io", ops |-> {<<>>}]

\* Ok(0) from the read (main.rs:111-118): the two cases differ in the log
\* line only.
on_read_zero(buffer) ==
    IF buffer = <<>>
    THEN [result |-> "ClientDisconnected", ops |-> {<<>>}]
    ELSE [result |-> "ClientDisconnected", ops |-> {<<>>}]

\* Mutant of on_read_error: a failed read is answered like a malformed head.
on_read_error_400 ==
    [result |-> "HttpErrorSent", ops |-> send_http_error(400, "Bad Request"),
     pc |-> "closed"]

\* Err(e) from the read (main.rs:122): the function returns Io(e) and
\* handle_request returns it (main.rs:191).
on_read_error ==
    [result |-> "Io", ops |-> {<<>>}, pc |-> "closed"]

\* read_and_parse_request, the read (main.rs:110-123): n bytes arrive, or
\* the client has hung up, or the read fails.
ReadStep ==
    /\ pc = "read"
    /\ \/ \E n \in 1..Min(spare_capacity(client_buffer, cap), Len(stream) - pos) :
            /\ client_buffer' = client_buffer \o SubSeq(stream, pos + 1, pos + n)
            /\ cap' = IF Len(client_buffer) = cap THEN cap + Reserve ELSE cap
            /\ pos' = pos + n
            /\ pc' = "parse"
            /\ UNCHANGED <<eof, result, clientOps>>
       \/ /\ eof' = TRUE
          /\ result' = on_read_zero(client_buffer).result
          /\ \E ops \in on_read_zero(client_buffer).ops :
                clientOps' = clientOps \o ops
          /\ pc' = "closed"
          /\ UNCHANGED <<client_buffer, cap, pos>>
       \/ /\ result' = on_read_error.result
          /\ \E ops \in on_read_error.ops : clientOps' = clientOps \o ops
          /\ pc' = on_read_error.pc
          /\ UNCHANGED <<client_buffer, cap, pos, eof>>
    /\ UNCHANGED <<wire, stream, req, parsed_len, connects, upstream,
                   upstreamOps, fwd, c2u, u2c, upos, relayed>>

\* Mutant of on_connect: the failure is reported to the client, but
\* handle_request goes on to forward the request.
on_connect_goes_on(ok) ==
    [upstream |-> IF ok THEN "connected" ELSE "failed", pc |-> "forward",
     error |-> ~ok]

\* connect_to_upstream and the `?` after it (main.rs:137-147, 193): where
\* handle_request goes on, and whether a 502 is sent first.
on_connect(ok) ==
    IF ok THEN [upstream |-> "connected", pc |-> "forward", error |-> FALSE]
    ELSE [upstream |-> "failed", pc |-> "closed", error |-> TRUE]

\* connect_to_upstream (main.rs:134-148): the connect succeeds or fails.
ConnectStep ==
    /\ pc = "connect"
    /\ connects' = connects + 1
    /\ \E ok \in BOOLEAN :
        /\ upstream' = on_connect(ok).upstream
        /\ pc' = on_connect(ok).pc
        /\ IF on_connect(ok).error
           THEN /\ \E ops \in send_http_error(502, "Bad Gateway") :
                        clientOps' = clientOps \o ops
                /\ result' = "HttpErrorSent"
           ELSE UNCHANGED <<result, clientOps>>
    /\ UNCHANGED <<wire, stream, pos, eof, client_buffer, cap, req, parsed_len,
                   upstreamOps, fwd, c2u, u2c, upos, relayed>>

\* Mutant of forward_writes: the bytes left in the buffer are not written.
forward_writes_head_only(r, buffer) ==
    LET request_line ==
            r.method \o <<SP>> \o r.path \o <<SP>> \o HTTP1x
            \o <<ToString(r.version)>> \o CRLF
        header_line(h) == h.name \o <<":", SP>> \o h.value \o CRLF
    IN  <<request_line>>
        \o [k \in 1..Len(r.headers) |-> header_line(r.headers[k])]
        \o <<CRLF>>

\* Mutant of forward_writes: the headers are written last header first.
forward_writes_reversed(r, buffer) ==
    LET request_line ==
            r.method \o <<SP>> \o r.path \o <<SP>> \o HTTP1x
            \o <<ToString(r.version)>> \o CRLF
        header_line(h) == h.name \o <<":", SP>> \o h.value \o CRLF
        n == Len(r.headers)
    IN  <<request_line>>
        \o [k \in 1..n |-> header_line(r.headers[n + 1 - k])]
        \o <<CRLF>>
        \o (IF buffer # <<>> THEN <<buffer>> ELSE <<>>)

\* The write_all calls of forward_request_to_upstream, in order
\* (main.rs:151-163).
forward_writes(r, buffer) ==
    LET request_line ==
            r.method \o <<SP>> \o r.path \o <<SP>> \o HTTP1x
            \o <<ToString(r.version)>> \o CRLF
        header_line(h) == h.name \o <<":", SP>> \o h.value \o CRLF
    IN  <<request_line>>
        \o [k \in 1..Len(r.headers) |-> header_line(r.headers[k])]
        \o <<CRLF>>
        \o (IF buffer # <<>> THEN <<buffer>> ELSE <<>>)

UpWrite(data, ok) == [data |-> data, ok |-> ok]

\* Mutant of on_forward_error: the error is propagated with `?`, as the
\* relay's is, and no response is sent.
on_forward_error_propagated ==
    [pc |-> "closed", result |-> "Io", ops |-> {<<>>}]

\* forward_request_to_upstream returned Err (main.rs:198-204): a 502 that
\* names the write error is sent and handle_request returns HttpErrorSent.
on_forward_error ==
    [pc |-> "closed", result |-> "HttpErrorSent",
     ops |-> send_http_error(502, "Bad Gateway (Upstream Write Error)")]

\* One write_all of forward_request_to_upstream and what handle_request does
\* with its result (main.rs:195-205).
ForwardStep ==
    /\ pc = "forward"
    /\ LET writes == forward_writes(req, client_buffer) IN
       \/ /\ upstreamOps' = Append(upstreamOps, UpWrite(writes[fwd + 1], TRUE))
          /\ fwd' = fwd + 1
          /\ IF fwd + 1 = Len(writes)
             THEN pc' = "relay" /\ c2u' = "run" /\ u2c' = "run"
             ELSE UNCHANGED <<pc, c2u, u2c>>
          /\ UNCHANGED <<result, clientOps>>
       \/ /\ upstreamOps' = Append(upstreamOps, UpWrite(writes[fwd + 1], FALSE))
          /\ \E ops \in on_forward_error.ops : clientOps' = clientOps \o ops
          /\ result' = on_forward_error.result
          /\ pc' = on_forward_error.pc
          /\ UNCHANGED <<fwd, c2u, u2c>>
    /\ UNCHANGED <<wire, stream, pos, eof, client_buffer, cap, req, parsed_len,
                   connects, upstream, upos, relayed>>

\* Mutant of joined: the relay is over as soon as one copy is done.
joined_any(mine, other) ==
    IF mine = "done" THEN [pc |-> "closed", result |-> "Ok"]
    ELSE [pc |-> "relay", result |-> "none"]

\* try_join! when a copy returns Ok (main.rs:175-182): the relay is over
\* with Ok once both copies are done, and goes on while the other runs.
joined(mine, other) ==
    IF mine = "done" /\ other = "done" THEN [pc |-> "closed", result |-> "Ok"]
    ELSE [pc |-> "relay", result |-> "none"]

\* Mutant of on_copy_error: try_join! waits for the other copy before it
\* returns the error.
on_copy_error_waits(other) ==
    IF other = "run"
    THEN [pc |-> "relay", result |-> "none", ops |-> {<<>>}]
    ELSE [pc |-> "closed", result |-> "Io", ops |-> {<<>>}]

\* Mutant of on_copy_error: handle_request answers a relay error with a 502.
on_copy_error_502(other) ==
    [pc |-> "closed", result |-> "HttpErrorSent",
     ops |-> send_http_error(502, "Bad Gateway")]

\* try_join! when a copy returns Err (main.rs:175, 183-186, 207): the other
\* copy is dropped where it is, the relay returns Io(e) and handle_request
\* returns it; the client socket is not written to.
on_copy_error(other) ==
    [pc |-> "closed", result |-> "Io", ops |-> {<<>>}]

\* tokio::io::copy(client_read, upstream_write) (main.rs:171): a chunk is
\* read and written, or the write of it fails, or the client is at its end
\* of stream, or the read fails.
ClientToUpstream ==
    /\ pc = "relay" /\ c2u = "run"
    /\ \/ \E n \in 1..(Len(stream) - pos) :
            /\ pos' = pos + n
            /\ upstreamOps' =
                  Append(upstreamOps, UpWrite(SubSeq(stream, pos + 1, pos + n), TRUE))
            /\ UNCHANGED <<eof, c2u, pc, result, clientOps>>
       \/ \E n \in 1..(Len(stream) - pos) :
            /\ pos' = pos + n
            /\ upstreamOps' =
                  Append(upstreamOps, UpWrite(SubSeq(stream, pos + 1, pos + n), FALSE))
            /\ c2u' = "failed"
            /\ pc' = on_copy_error(u2c).pc
            /\ result' = on_copy_error(u2c).result
            /\ \E ops \in on_copy_error(u2c).ops : clientOps' = clientOps \o ops
            /\ UNCHANGED eof
       \/ /\ eof' = TRUE
          /\ c2u' = "done"
          /\ pc' = joined("done", u2c).pc
          /\ result' = joined("done", u2c).result
          /\ UNCHANGED <<pos, upstreamOps, clientOps>>
       \/ /\ c2u' = "failed"
          /\ pc' = on_copy_error(u2c).pc
          /\ result' = on_copy_error(u2c).result
          /\ \E ops \in on_copy_error(u2c).ops : clientOps' = clientOps \o ops
          /\ UNCHANGED <<pos, eof, upstreamOps>>
    /\ UNCHANGED <<wire, stream, client_buffer, cap, req, parsed_len,
                   connects, upstream, fwd, u2c, upos, relayed>>

\* tokio::io::copy(upstream_read, client_write) (main.rs:172).
UpstreamToClient ==
    /\ pc = "relay" /\ u2c = "run"
    /\ \/ \E n \in 1..(Len(UpstreamResponse) - upos) :
            /\ upos' = upos + n
            /\ relayed' = relayed \o SubSeq(UpstreamResponse, upos + 1, upos + n)
            /\ UNCHANGED <<u2c, pc, result, clientOps>>
       \/ \E n \in 1..(Len(UpstreamResponse) - upos) :
            /\ upos' = upos + n
            /\ u2c' = "failed"
            /\ pc' = on_copy_error(c2u).pc
            /\ result' = on_copy_error(c2u).result
            /\ \E ops \in on_copy_error(c2u).ops : clientOps' = clientOps \o ops
            /\ UNCHANGED relayed
       \/ /\ u2c' = "done"
          /\ pc' = joined("done", c2u).pc
          /\ result' = joined("done", c2u).result
          /\ UNCHANGED <<upos, relayed, clientOps>>
       \/ /\ u2c' = "failed"
          /\ pc' = on_copy_error(c2u).pc
          /\ result' = on_copy_error(c2u).result
          /\ \E ops \in on_copy_error(c2u).ops : clientOps' = clientOps \o ops
          /\ UNCHANGED <<upos, relayed>>
    /\ UNCHANGED <<wire, stream, pos, eof, client_buffer, cap, req, parsed_len,
                   connects, upstream, upstreamOps, fwd, c2u>>

NoRequest == [method |-> <<>>, path |-> <<>>, version |-> 0, headers |-> <<>>]

\* ProxyConnection::new (main.rs:77-83), for each stream a client may send.
Init ==
    /\ wire \in Wires
    /\ stream = Render(wire)
    /\ pos = 0
    /\ eof = FALSE
    /\ client_buffer = <<>>
    /\ cap = Capacity
    /\ pc = "parse"
    /\ req = NoRequest
    /\ parsed_len = 0
    /\ result = "none"
    /\ clientOps = <<>>
    /\ connects = 0
    /\ upstream = "none"
    /\ upstreamOps = <<>>
    /\ fwd = 0
    /\ c2u = "idle"
    /\ u2c = "idle"
    /\ upos = 0
    /\ relayed = <<>>

Next ==
    \/ ParseStep
    \/ ReadStep
    \/ ConnectStep
    \/ ForwardStep
    \/ ClientToUpstream
    \/ UpstreamToClient

Spec == Init /\ [][Next]_vars

-----------------------------------------------------------------------------
(* Vocabulary of the properties *)

\* The bytes the client has sent by the end of the connection: all of its
\* stream, or what it had sent when it hung up.
Sent == IF eof THEN Take(stream, pos) ELSE stream

\* Length of the head on the wire, terminator included.
HeadLen == Len(RenderHead(wire))

\* read_and_parse_request has returned.
Framed == pc \notin {"parse", "read"}

\* read_and_parse_request has returned Ok.
Parsed == upstream # "none" \/ pc = "connect"

\* A client read failed before the head was framed.
ReadFailed == pc = "closed" /\ ~Parsed /\ result = "Io"

\* The write_all calls made on the client socket.
ClientWrites == SelectSeq(clientOps, LAMBDA o : o.op = "write_all")

\* The texts of the synthetic responses, as send_http_error formats them.
Response400 == http_error_response(400, "Bad Request")
Response413 == http_error_response(413, "Payload Too Large")
Response502 == http_error_response(502, "Bad Gateway")

\* The client socket saw exactly one send_http_error call, for `response`:
\* one write_all of it, followed by the shutdown when the write succeeded.
SentOnce(response) ==
    /\ Len(ClientWrites) = 1
    /\ clientOps[1] = WriteAll(response, clientOps[1].ok)
    /\ Len(clientOps) = IF clientOps[1].ok THEN 2 ELSE 1
    /\ Len(clientOps) = 2 => clientOps[2].op = "shutdown"

\* What read_and_parse_request ended with.
FramingResult ==
    IF Parsed THEN [exit |-> "Parsed", req |-> req, sent |-> <<>>]
    ELSE [exit |-> result, req |-> NoRequest,
          sent |-> [k \in 1..Len(ClientWrites) |-> ClientWrites[k].data]]

\* What read_and_parse_request ends with when `bytes` arrive in one read,
\* followed by the end of the stream: the read fills the empty buffer with
\* as much of them as it holds.
one_read(r, full) ==
    IF r.ret = "Some" THEN [exit |-> "Parsed", req |-> r.parsed_req, sent |-> <<>>]
    ELSE IF r.ret = "Err"
         THEN [exit |-> "HttpErrorSent", req |-> NoRequest, sent |-> <<Response400>>]
    ELSE IF full
         THEN [exit |-> "HttpErrorSent", req |-> NoRequest, sent |-> <<Response413>>]
    ELSE [exit |-> "ClientDisconnected", req |-> NoRequest, sent |-> <<>>]

InOneRead(bytes) ==
    one_read(parse_http_request(Take(bytes, Capacity)), Len(bytes) >= Capacity)

-----------------------------------------------------------------------------
(* C1: framing is split-invariant.  However the client's bytes are cut     *)
(* into reads, read_and_parse_request ends as it does when the same bytes  *)
(* arrive in one read: with the same ParsedRequest (method, path, version  *)
(* and ordered header list) or with the same error exit and the same       *)
(* response.  (A failed read is not a way of splitting the bytes.)         *)
C1_SplitInvariant ==
    (Framed /\ ~ReadFailed) => FramingResult = InOneRead(Sent)

\* A head with a header was framed from reads that cut the version, the
\* header line and the terminator apart from what follows.
C1_Witness ==
    /\ Parsed /\ Len(req.headers) >= 1
    /\ pos = HeadLen /\ Len(stream) > HeadLen
    /\ C1_SplitInvariant

-----------------------------------------------------------------------------
\* The head on the wire is grammatical: a token, a target of visible bytes,
\* HTTP/1.0 or HTTP/1.1, and header lines of a token name, a colon and a
\* value without control bytes.
ValidHeader(h) ==
    /\ h.name # <<>> /\ \A k \in 1..Len(h.name) : is_token(h.name[k])
    /\ \A k \in 1..Len(h.sep) : h.sep[k] \in {SP, HT}
    /\ \A k \in 1..Len(h.value) : h.value[k] \notin Controls
    /\ \A k \in 1..Len(h.trail) : h.trail[k] \in {SP, HT}

ValidHead(w) ==
    /\ w.lead \in {<<>>, CRLF, <<LF>>}
    /\ w.method # <<>> /\ \A k \in 1..Len(w.method) : is_token(w.method[k])
    /\ w.path # <<>>
    /\ \A k \in 1..Len(w.path) : w.path[k] \notin Controls \cup {SP, HT}
    /\ w.version \in {HTTP10, HTTP11}
    /\ w.eol \in {CRLF, <<LF>>}
    /\ \A k \in 1..Len(w.headers) : ValidHeader(w.headers[k])

\* The 413 or the 400 path was taken.
Rejected ==
    \E k \in 1..Len(clientOps) : clientOps[k].data \in {Response400, Response413}

(* C2: a grammatical head of at most Capacity bytes, terminator included,  *)
(* with at most HeaderLimit headers is always framed.  The 413 and the 400 *)
(* path are never taken; no read is issued once the head is in the buffer; *)
(* and once the head has been read and the parser has run, the request is  *)
(* parsed with exactly the head consumed: also when the head is as long as *)
(* the buffer, so that the buffer is full when the head completes.         *)
C2_ValidHeadCompletes ==
    (ValidHead(wire) /\ Len(wire.headers) <= HeaderLimit /\ HeadLen <= Capacity)
    => /\ ~Rejected
       /\ pc = "read" => pos < HeadLen
       /\ (pos >= HeadLen /\ pc # "parse") => (Parsed /\ parsed_len = HeadLen)
       /\ (pc = "closed" /\ ~Parsed) => result \in {"ClientDisconnected", "Io"}

\* A head exactly as long as the buffer was parsed from a full buffer.
C2_Witness ==
    /\ ValidHead(wire) /\ HeadLen = Capacity
    /\ pc = "connect" /\ pos = Capacity /\ parsed_len = Capacity
    /\ client_buffer = <<>>

-----------------------------------------------------------------------------
\* The client's first Capacity bytes are a prefix of a head that has not
\* ended: the parser calls them incomplete.
Unterminated ==
    /\ Len(stream) >= Capacity
    /\ Request_parse(Take(stream, Capacity), HeaderLimit).st = "partial"

C3_State ==
    /\ pc = "read" => (Len(client_buffer) < Capacity /\ cap = Capacity)
    /\ ~Parsed => (Len(client_buffer) = pos /\ pos <= Capacity)
    /\ (pc = "closed" /\ ~eof /\ ~ReadFailed /\ Unterminated)
       => /\ result = "HttpErrorSent"
          /\ pos = Capacity
          /\ SentOnce(Response413)
          /\ connects = 0 /\ upstream = "none" /\ upstreamOps = <<>>

C3_Growth ==
    [][(pc = "read" /\ pc' = "parse")
       => Len(client_buffer') > Len(client_buffer)]_vars

(* C3: a client that keeps sending an unterminated head until the buffer   *)
(* is full gets the 413 path.  A read is issued only while the buffer has  *)
(* room and every read that returns bytes makes the buffer longer, so      *)
(* there are at most Capacity reads; when the connection has closed (the   *)
(* client neither hung up nor did a read fail) the buffer was full,        *)
(* send_http_error was called once, for the 413 response, and no upstream  *)
(* connection was opened or written to.                                    *)
C3_OversizedHead == []C3_State /\ C3_Growth

\* The 413 response was written after the buffer filled up.
C3_Witness ==
    /\ pc = "closed" /\ ~eof /\ Unterminated
    /\ pos = Capacity /\ Len(client_buffer) = Capacity
    /\ clientOps = <<WriteAll(Response413, TRUE), Shutdown(TRUE)>>

-----------------------------------------------------------------------------
\* Length of the wire's head up to the end of its n-th header line.
LinesLen(w, n) ==
    Len(RenderHead([w EXCEPT !.headers = SubSeq(w.headers, 1, n)])) - Len(w.eol)

\* The client sent what it had to send: it did not hang up and no read of
\* the proxy failed before the head was framed.
Delivered == ~eof /\ ~ReadFailed

(* C4 as claimed: a head with more than HeaderLimit header lines always    *)
(* ends in the Malformed/400 outcome.                                      *)
C4_Original ==
    (pc = "closed" /\ Len(wire.headers) > HeaderLimit /\ Delivered)
    => (result = "HttpErrorSent" /\ SentOnce(Response400))

(* C4, amended: a head with more than HeaderLimit header lines is never    *)
(* parsed (no ParsedRequest with a truncated header list); it ends in the  *)
(* Malformed/400 outcome when its first HeaderLimit + 1 header lines fit   *)
(* in the buffer; and a head with exactly HeaderLimit headers is parsed    *)
(* with all of them present, in order.                                     *)
C4_HeaderLimit ==
    /\ Len(wire.headers) > HeaderLimit => ~Parsed
    /\ (/\ pc = "closed" /\ Len(wire.headers) > HeaderLimit /\ Delivered
        /\ LinesLen(wire, HeaderLimit + 1) <= Capacity)
       => (result = "HttpErrorSent" /\ SentOnce(Response400))
    /\ (Parsed /\ ValidHead(wire) /\ Len(wire.headers) = HeaderLimit)
       => /\ Len(req.headers) = HeaderLimit
          /\ \A k \in 1..HeaderLimit : req.headers[k].name = wire.headers[k].name

\* The header after the last slot was answered with the 400 response.
C4_Witness ==
    /\ pc = "closed" /\ Len(wire.headers) = HeaderLimit + 1
    /\ LinesLen(wire, HeaderLimit + 1) <= Capacity
    /\ pos >= LinesLen(wire, HeaderLimit + 1)
    /\ clientOps = <<WriteAll(Response400, TRUE), Shutdown(TRUE)>>

-----------------------------------------------------------------------------
\* The Framer calls the buffered bytes malformed.
Malformed == parse_http_request(client_buffer).ret = "Err"

C5_State ==
    /\ pc = "read" => ~Malformed
    /\ (pc = "closed" /\ ~Parsed /\ Malformed)
       => /\ result = "HttpErrorSent"
          /\ SentOnce(Response400)
          /\ connects = 0 /\ upstream = "none" /\ upstreamOps = <<>>
          /\ c2u = "idle" /\ u2c = "idle"

C5_NoReadAfter ==
    [][(clientOps # <<>> \/ pc = "closed")
       => (pos' = pos /\ client_buffer' = client_buffer /\ pc' = "closed")]_vars

(* C5: when the Framer reports Malformed, send_http_error is called once,  *)
(* for the 400 response (one write_all, then the shutdown), the connection *)
(* ends with Err(HttpErrorSent), the exit the code has for BadRequest, no  *)
(* client read follows (none is issued on a malformed buffer and nothing   *)
(* is read once a response has been sent) and no upstream connection is    *)
(* opened.                                                                 *)
C5_Malformed == []C5_State /\ C5_NoReadAfter

\* "not a request" was answered with the 400 response.
C5_Witness ==
    /\ pc = "closed" /\ ~Parsed /\ Malformed
    /\ wire.method = <<"n", "o", "t">>
    /\ clientOps = <<WriteAll(Response400, TRUE), Shutdown(TRUE)>>

(* C6: when a client read returns zero bytes before a head is framed, with *)
(* the buffer empty or holding part of a head, the connection ends with    *)
(* Err(ClientDisconnected); nothing is written to the client, its socket   *)
(* is not shut down, and no upstream connection is opened.                 *)
C6_ClientGone ==
    (eof /\ ~Parsed)
    => /\ pc = "closed"
       /\ result = "ClientDisconnected"
       /\ clientOps = <<>>
       /\ connects = 0 /\ upstream = "none" /\ upstreamOps = <<>>
       /\ relayed = <<>>

\* The client hung up in the middle of a head.
C6_Witness ==
    /\ eof /\ ~Parsed /\ result = "ClientDisconnected"
    /\ client_buffer # <<>> /\ Len(client_buffer) < HeadLen
    /\ ValidHead(wire)

(* C7: when the upstream connect fails, send_http_error is called once,    *)
(* for the 502 response, nothing is ever written to an upstream            *)
(* connection, the relay never starts, and connect is called only once.    *)
C7_ConnectFailed ==
    /\ connects <= 1
    /\ upstream = "failed"
       => /\ pc = "closed"
          /\ result = "HttpErrorSent"
          /\ SentOnce(Response502)
          /\ connects = 1
          /\ upstreamOps = <<>> /\ fwd = 0
          /\ c2u = "idle" /\ u2c = "idle" /\ relayed = <<>>

\* The connect failed after a parse that left body bytes in the buffer.
C7_Witness ==
    /\ upstream = "failed" /\ Parsed /\ client_buffer # <<>>
    /\ clientOps = <<WriteAll(Response502, TRUE), Shutdown(TRUE)>>

-----------------------------------------------------------------------------
\* The head as the wire's parts say it is replayed: the request line, a
\* line per header in wire order with the value decoded, the empty line.
ExpectedHead(w) ==
    <<w.method \o <<SP>> \o w.path \o <<SP>> \o w.version \o CRLF>>
    \o [k \in 1..Len(w.headers) |->
            w.headers[k].name \o <<":", SP>>
            \o from_utf8_lossy(w.headers[k].value) \o CRLF]
    \o <<CRLF>>

\* The bytes of the writes made on the upstream socket, in order.
UpstreamBytes == Flatten([k \in 1..Len(upstreamOps) |-> upstreamOps[k].data])

(* C8: no client byte after the head is lost, duplicated or reordered on   *)
(* the way upstream.  From the start of the relay, as long as no copy has  *)
(* failed, the upstream has received the replayed head followed by exactly *)
(* the client bytes after the head that the proxy has read, in order: the  *)
(* residual bytes of the buffer first, written once before the relay, then *)
(* what the relay read.  When the relay ends with Ok these are all the     *)
(* bytes the client sent after the head.                                   *)
C8_NoLoss ==
    (pc = "relay" \/ (pc = "closed" /\ result = "Ok"))
    => /\ \A k \in 1..Len(upstreamOps) : upstreamOps[k].ok
       /\ UpstreamBytes
            = Flatten(ExpectedHead(wire)) \o SubSeq(stream, HeadLen + 1, pos)
       /\ (pc = "closed" => pos = Len(Sent))

\* Residual bytes were forwarded and the relay copied the byte after them.
C8_Witness ==
    /\ pc = "closed" /\ result = "Ok"
    /\ client_buffer # <<>>
    /\ pos > HeadLen + Len(client_buffer)
    /\ C8_NoLoss

\* What forward_request_to_upstream has to write, call by call.
ExpectedForward ==
    ExpectedHead(wire) \o (IF client_buffer # <<>> THEN <<client_buffer>> ELSE <<>>)

(* C9: forward_request_to_upstream writes the request line built from      *)
(* method, path and version, then one line per header in the order of the  *)
(* wire (duplicates and the casing of names kept), then the empty line,    *)
(* then the residual bytes of the buffer, and nothing else; the headers    *)
(* written are the (name, value) pairs the Framer parsed.                  *)
C9_ForwardOrder ==
    upstream = "connected"
    => /\ fwd <= Len(ExpectedForward) /\ fwd <= Len(upstreamOps)
       /\ pc = "forward" => Len(upstreamOps) = fwd
       /\ pc = "relay" => fwd = Len(ExpectedForward)
       /\ \A k \in 1..fwd : upstreamOps[k].ok
       /\ \A k \in 1..Min(Len(upstreamOps), Len(ExpectedForward)) :
            upstreamOps[k].data = ExpectedForward[k]
       /\ req.headers =
            [k \in 1..Len(wire.headers) |->
                [name |-> wire.headers[k].name,
                 value |-> from_utf8_lossy(wire.headers[k].value)]]
       /\ client_buffer = SubSeq(stream, HeadLen + 1, HeadLen + Len(client_buffer))

\* A head with the same header twice and body bytes behind it was replayed.
C9_Witness ==
    /\ pc = "relay" /\ fwd = 5
    /\ Len(req.headers) = 2 /\ req.headers[1] = req.headers[2]
    /\ client_buffer # <<>>

-----------------------------------------------------------------------------
\* The responses of section 6 of the specification.
Spec400 == "HTTP/1.1 400 Bad Request\r\nContent-Length: 0\r\nConnection: close\r\n\r\n"
Spec413 == "HTTP/1.1 413 Payload Too Large\r\nContent-Length: 0\r\nConnection: close\r\n\r\n"

\* The responses the code writes.
Html400 == "HTTP/1.1 400 Bad Request\r\nContent-Type: text/html\r\nContent-Length: 24\r\nConnection: close\r\n\r\n<h1>400 Bad Request</h1>"
Html413 == "HTTP/1.1 413 Payload Too Large\r\nContent-Type: text/html\r\nContent-Length: 30\r\nConnection: close\r\n\r\n<h1>413 Payload Too Large</h1>"

\* read_and_parse_request ended on the 400 or the 413 path.
FramingRejected == pc = "closed" /\ ~Parsed /\ result = "HttpErrorSent"

(* C10 as claimed: the 400 and the 413 response are the header-only texts  *)
(* of the specification, with Content-Length: 0 and no body.               *)
C10_Original ==
    FramingRejected
    => ClientWrites[1].data = (IF Malformed THEN Spec400 ELSE Spec413)

(* C10, amended: the 400 and the 413 response are bit-exact, in the form   *)
(* with an HTML body: status line, Content-Type: text/html, Content-Length *)
(* equal to the length of the body, Connection: close, an empty line and   *)
(* the body <h1>400 Bad Request</h1> or <h1>413 Payload Too Large</h1>.    *)
C10_HtmlResponses ==
    FramingRejected
    => /\ Len(ClientWrites) = 1
       /\ ClientWrites[1].data = (IF Malformed THEN Html400 ELSE Html413)

\* Both responses have been written, here the 400 one.
C10_Witness ==
    /\ FramingRejected /\ Malformed
    /\ clientOps = <<WriteAll(Html400, TRUE), Shutdown(TRUE)>>

-----------------------------------------------------------------------------
\* The status lines and the bodies a synthetic response may be made of.
StatusTexts ==
    { "400 Bad Request", "413 Payload Too Large", "502 Bad Gateway",
      "502 Bad Gateway (Upstream Write Error)" }
ResponseBodies ==
    { "", "<h1>400 Bad Request</h1>", "<h1>413 Payload Too Large</h1>",
      "<h1>502 Bad Gateway</h1>",
      "<h1>502 Bad Gateway (Upstream Write Error)</h1>" }

\* `data` is an HTTP/1.1 status line, header lines among which a
\* Content-Length that is the length of the body and Connection: close, an
\* empty line, and that body.
WellFramed(data) ==
    \E st \in StatusTexts, b \in ResponseBodies :
        \E ct \in {"", "Content-Type: text/html\r\n"} :
            data = "HTTP/1.1 " \o st \o "\r\n" \o ct
                   \o "Content-Length: " \o ToString(Len(b)) \o "\r\n"
                   \o "Connection: close\r\n\r\n" \o b

(* C11: every synthetic response written to the client starts with         *)
(* HTTP/1.1, has a Content-Length that is the length of its body and       *)
(* Connection: close; a write of it that succeeds is followed by a         *)
(* shutdown of the client socket, and the shutdown is the last thing done  *)
(* on the client socket: the connection is over and the relay wrote        *)
(* nothing.                                                                *)
C11_FramedAndShutDown ==
    \A k \in 1..Len(clientOps) :
        /\ clientOps[k].op = "write_all"
           => /\ WellFramed(clientOps[k].data)
              /\ clientOps[k].ok
                 => /\ k < Len(clientOps)
                    /\ clientOps[k + 1].op = "shutdown"
        /\ clientOps[k].op = "shutdown"
           => /\ k = Len(clientOps)
              /\ pc = "closed"
              /\ relayed = <<>>

\* A response, here the one for a failed upstream write, was written and
\* the socket shut down.
C11_Witness ==
    /\ pc = "closed" /\ fwd >= 1
    /\ clientOps =
         <<WriteAll(http_error_response(502, "Bad Gateway (Upstream Write Error)"),
                    TRUE),
           Shutdown(TRUE)>>

-----------------------------------------------------------------------------
\* A write of the replayed request to the upstream failed.
ForwardFailed ==
    /\ c2u = "idle"
    /\ \E k \in 1..Len(upstreamOps) : ~upstreamOps[k].ok

\* The synthetic responses whose status line is HTTP/1.1 <st>, in the
\* header-only form and in the forms with a body.
WithStatusLine(st) ==
    { "HTTP/1.1 " \o st \o "\r\n" \o ct
      \o "Content-Length: " \o ToString(Len(b)) \o "\r\n"
      \o "Connection: close\r\n\r\n" \o b :
        ct \in {"", "Content-Type: text/html\r\n"}, b \in ResponseBodies }

\* The response to a failed upstream write, byte for byte.
Html502Write ==
    "HTTP/1.1 502 Bad Gateway (Upstream Write Error)\r\nContent-Type: text/html\r\nContent-Length: 47\r\nConnection: close\r\n\r\n<h1>502 Bad Gateway (Upstream Write Error)</h1>"

\* What a failed upstream write ends in, the response apart: the failed
\* write is the last one, the connection is closed with HttpErrorSent, and
\* the relay has not started.
ForwardFailedExit ==
    /\ pc = "closed"
    /\ result = "HttpErrorSent"
    /\ \A k \in 1..Len(upstreamOps) : upstreamOps[k].ok <=> k < Len(upstreamOps)
    /\ Len(upstreamOps) = fwd + 1
    /\ u2c = "idle" /\ upos = 0 /\ relayed = <<>>
    /\ pos <= Capacity

(* C12 as claimed: the response to a failed upstream write has the status  *)
(* line of the response to a failed connect, HTTP/1.1 502 Bad Gateway.     *)
C12_Original ==
    ForwardFailed
    => /\ ForwardFailedExit
       /\ Len(ClientWrites) = 1
       /\ ClientWrites[1].data \in WithStatusLine("502 Bad Gateway")

(* C12, amended: when a write of the replayed request to the upstream      *)
(* fails (request line, header line, terminator or residual bytes), the    *)
(* client is sent one 502 response whose status line is                    *)
(* HTTP/1.1 502 Bad Gateway (Upstream Write Error) and whose body names    *)
(* the same: it has the status code of the response to a failed connect    *)
(* and differs from it in the reason phrase, the body and the              *)
(* Content-Length.  The connection closes with HttpErrorSent and the relay *)
(* never starts.                                                           *)
C12_ForwardFailed ==
    ForwardFailed
    => /\ ForwardFailedExit
       /\ SentOnce(Html502Write)
       /\ Html502Write \in WithStatusLine("502 Bad Gateway (Upstream Write Error)")
       /\ Html502Write # Response502

\* The request line, a header line and the terminator were written, and
\* the write of the residual bytes failed.
C12_Witness ==
    /\ ForwardFailed /\ pc = "closed"
    /\ Len(req.headers) >= 1 /\ client_buffer # <<>>
    /\ fwd = Len(req.headers) + 2
    /\ upstreamOps[fwd + 1] = UpWrite(client_buffer, FALSE)
    /\ Len(clientOps) = 2

-----------------------------------------------------------------------------
\* proxy_bidirectional_data has been entered.
Started == c2u # "idle"

\* proxy_bidirectional_data has returned.
Returned == Started /\ pc = "closed"

(* C13 as claimed: the relay has not returned while a direction is still   *)
(* able to copy, also when the other direction ended with an error.        *)
C13_Original ==
    Returned => (c2u # "run" /\ u2c # "run")

(* C13, amended: the relay returns Ok only when both copy directions have  *)
(* reached their end of stream; until then, and while neither has failed,  *)
(* it has not returned.  When a direction ends with a read or a write      *)
(* error the relay returns that error at once and the connection closes,   *)
(* whether the other direction has finished or is still able to copy.      *)
C13_FirstError ==
    /\ pc = "relay"
       => /\ c2u \in {"run", "done"} /\ u2c \in {"run", "done"}
          /\ ~(c2u = "done" /\ u2c = "done")
          /\ result = "none"
    /\ Returned
       => \/ result = "Ok" /\ c2u = "done" /\ u2c = "done"
          \/ result = "Io" /\ c2u = "failed" /\ u2c \in {"run", "done"}
          \/ result = "Io" /\ u2c = "failed" /\ c2u \in {"run", "done"}

\* The client's side failed and the relay returned while the upstream had
\* sent part of its response and had more to send.
C13_Witness ==
    /\ Returned /\ result = "Io"
    /\ c2u = "failed" /\ u2c = "run"
    /\ relayed # <<>> /\ upos < Len(UpstreamResponse)

-----------------------------------------------------------------------------
\* Each direction has delivered, in order, what it has read, until it fails:
\* the client has been written the bytes read from the upstream, and the
\* upstream the replayed head and the client's bytes after it.
C14_State ==
    Started
    => /\ u2c # "failed" => relayed = Take(UpstreamResponse, upos)
       /\ c2u # "failed"
          => UpstreamBytes
               = Flatten(ExpectedHead(wire)) \o SubSeq(stream, HeadLen + 1, pos)
       /\ (pc = "relay" /\ c2u = "done" /\ u2c = "run"
             /\ upos < Len(UpstreamResponse))
          => ENABLED (UpstreamToClient /\ Len(relayed') > Len(relayed))
       /\ (pc = "relay" /\ u2c = "done" /\ c2u = "run" /\ pos < Len(stream))
          => ENABLED (ClientToUpstream /\ pc' = "relay" /\ pos' > pos)

\* A direction that reaches its end of stream leaves the other as it is,
\* and the relay goes on if that one is running; what the running one then
\* reads is appended to what it has delivered.
C14_Step ==
    [][/\ (c2u = "run" /\ c2u' = "done")
          => (u2c' = u2c /\ (u2c = "run" => pc' = "relay"))
       /\ (u2c = "run" /\ u2c' = "done")
          => (c2u' = c2u /\ (c2u = "run" => pc' = "relay"))
       /\ (c2u = "done" /\ u2c = "run" /\ u2c' = "run" /\ upos' > upos)
          => relayed' = relayed \o SubSeq(UpstreamResponse, upos + 1, upos')
       /\ (u2c = "done" /\ c2u = "run" /\ c2u' = "run" /\ pos' > pos)
          => upstreamOps'
               = Append(upstreamOps, UpWrite(SubSeq(stream, pos + 1, pos'), TRUE))
      ]_vars

(* C14: in the relay a direction that reaches its end of stream does not   *)
(* cancel the other.  After the client-to-upstream copy has ended with the *)
(* client's end of stream, the upstream-to-client copy still runs and each *)
(* byte it reads is written to the client, in order, until the upstream    *)
(* ends or fails; and the same with the directions exchanged.  Either      *)
(* direction may copy while the other is running.                          *)
C14_NoCancel == []C14_State /\ C14_Step

\* Both directions copied bytes, the client finished, and the whole of the
\* upstream's response was delivered before the relay returned Ok.
C14_Witness ==
    /\ Returned /\ result = "Ok"
    /\ pos > HeadLen /\ pos = Len(stream)
    /\ Len(upstreamOps) > fwd + 1
    /\ relayed = UpstreamResponse

-----------------------------------------------------------------------------
\* handle_request has returned an error.
Failed == pc = "closed" /\ ~(Returned /\ c2u = "done" /\ u2c = "done")

\* The entries of the error taxonomy, and the one a failed connection falls
\* under, told from what happened to it.
Entries ==
    { "Malformed", "BufferExhausted", "PeerClosed", "UpstreamUnreachable",
      "ForwardWriteFailed", "Io" }
ResponseEntries ==
    { "Malformed", "BufferExhausted", "UpstreamUnreachable", "ForwardWriteFailed" }
Entry ==
    IF Returned THEN "Io"
    ELSE IF ForwardFailed THEN "ForwardWriteFailed"
    ELSE IF upstream = "failed" THEN "UpstreamUnreachable"
    ELSE IF Malformed THEN "Malformed"
    ELSE IF Len(client_buffer) = cap THEN "BufferExhausted"
    ELSE IF eof THEN "PeerClosed"
    ELSE "Io"

\* The ProxyError variant the return site of each entry constructs
\* (main.rs:128, 107, 117, 145, 203, 122 and 185).
ExitOf ==
    [e \in Entries |->
        CASE e = "PeerClosed" -> "ClientDisconnected"
          [] e = "Io" -> "Io"
          [] OTHER -> "HttpErrorSent"]

\* The response each entry that sends one writes to the client.
ResponseOf ==
    [e \in ResponseEntries |->
        CASE e = "Malformed" -> Html400
          [] e = "BufferExhausted" -> Html413
          [] e = "UpstreamUnreachable" -> Response502
          [] OTHER -> Html502Write]

(* C15 as claimed: the outcome a failed connection ends in is the outcome  *)
(* of its taxonomy entry alone, no other entry ends in it.                 *)
C15_Original ==
    Failed => \A e \in Entries \ {Entry} : ExitOf[e] # result

(* C15, amended: a failed connection ends in one of three error kinds.     *)
(* PeerClosed ends in ClientDisconnected; Io (a failed client read, a      *)
(* relay error) ends in Io; Malformed, BufferExhausted,                    *)
(* UpstreamUnreachable and ForwardWriteFailed all end in HttpErrorSent and *)
(* are told apart by the response sent to the client, which is different   *)
(* for each.  Parse and BufferFull are never returned.                     *)
C15_SharedOutcome ==
    /\ (pc = "closed" /\ ~Failed) => result = "Ok"
    /\ Failed
       => /\ result = ExitOf[Entry]
          /\ result \in {"Io", "ClientDisconnected", "HttpErrorSent"}
          /\ result = "HttpErrorSent" <=> Entry \in ResponseEntries
          /\ Entry \in ResponseEntries
             => /\ Len(ClientWrites) = 1
                /\ ClientWrites[1].data = ResponseOf[Entry]
                /\ \A e \in ResponseEntries \ {Entry} :
                      /\ ExitOf[e] = result
                      /\ ResponseOf[e] # ResponseOf[Entry]
          /\ Entry \notin ResponseEntries => clientOps = <<>>

\* The buffer filled up and the connection ended in the outcome that a
\* malformed head, a failed connect and a failed forward end in too.
C15_Witness ==
    /\ Failed /\ Entry = "BufferExhausted"
    /\ result = "HttpErrorSent" /\ ExitOf["Malformed"] = result
    /\ Len(clientOps) = 2

-----------------------------------------------------------------------------
(* C16 as claimed: in every reachable state the buffer is no longer than   *)
(* the initial capacity and the capacity is the initial capacity.          *)
C16_Original ==
    Len(client_buffer) <= Capacity /\ cap = Capacity

\* The buffer is within its capacity and the capacity within the initial
\* one, which it is until a head has been parsed; from then on it is less
\* by the length of the head.
C16_State ==
    /\ Len(client_buffer) <= cap
    /\ cap <= Capacity
    /\ ~Parsed => cap = Capacity
    /\ Parsed => (cap = Capacity - parsed_len /\ parsed_len = HeadLen)
    /\ pc = "read" => Len(client_buffer) < cap

\* The capacity never grows, a read appends no more than the spare
\* capacity, and the buffer is not read into once the head is parsed.
C16_Step ==
    [][/\ cap' <= cap
       /\ (pc = "read" /\ pc' = "parse")
          => /\ cap' = cap
             /\ Len(client_buffer') <= cap
             /\ client_buffer = Take(client_buffer', Len(client_buffer))
       /\ Parsed => client_buffer' = client_buffer
      ]_vars

(* C16, amended: the client buffer never grows past its capacity and the   *)
(* capacity never grows.  The buffer length is at most the capacity and    *)
(* the capacity at most the initial one; the capacity is the initial one   *)
(* until a head is parsed, and the initial one less the length of the head *)
(* afterwards, the head being removed from the front.  A client read is    *)
(* only issued when length < capacity and appends no more than the spare   *)
(* capacity.                                                               *)
C16_NeverGrows == []C16_State /\ C16_Step

\* Reads filled the buffer to its capacity with a whole head and a body
\* byte; the parse left the byte, and a capacity of as much.
C16_Witness ==
    /\ Parsed /\ pos = Capacity
    /\ Len(client_buffer) = cap /\ cap = Capacity - HeadLen /\ cap > 0

-----------------------------------------------------------------------------
\* The connection failed in one of the four ways that are answered: there
\* was one call of send_http_error, for the response of that way, and
\* whether its write and its shutdown succeeded or not the connection ended
\* with HttpErrorSent, the relay not started.
C17_State ==
    /\ (Failed /\ Entry \in ResponseEntries)
       => /\ SentOnce(ResponseOf[Entry])
          /\ result = "HttpErrorSent"
          /\ ~Started /\ relayed = <<>>
    /\ clientOps # <<>> => (Failed /\ Entry \in ResponseEntries)

\* Once send_http_error has been called, whatever came of it, no socket is
\* read, written, shut down or connected.
C17_Step ==
    [][clientOps # <<>>
       => UNCHANGED <<clientOps, upstreamOps, connects, pos, upos, relayed,
                      result>>]_vars

(* C17: a failure to send a synthetic response is swallowed.  For each of  *)
(* Malformed, BufferExhausted, UpstreamUnreachable and ForwardWriteFailed  *)
(* send_http_error is called exactly once; when its write fails nothing    *)
(* follows, when its shutdown fails nothing follows either, and in both    *)
(* cases the connection ends with the outcome it ends with when the send   *)
(* succeeds.                                                               *)
C17_Swallowed == []C17_State /\ C17_Step

\* The write of the 502 for a failed connect failed, and the connection
\* ended as it does when the write succeeds.
C17_Witness ==
    /\ Failed /\ Entry = "UpstreamUnreachable"
    /\ clientOps = <<WriteAll(Response502, FALSE)>>
    /\ result = "HttpErrorSent"

-----------------------------------------------------------------------------
(* C18: a connection writes at most one synthetic response to the client,  *)
(* and none once the request has been forwarded.  Before the relay nothing *)
(* but such a response is written to the client; from the start of the     *)
(* relay on, send_http_error is not called and what has been written to    *)
(* the client is a prefix of what the upstream sent, in its order, made of *)
(* bytes read from it, also when the relay has returned an error.          *)
C18_OneResponse ==
    /\ Len(ClientWrites) <= 1
    /\ ~Started => relayed = <<>>
    /\ Started
       => /\ clientOps = <<>>
          /\ Len(relayed) <= upos
          /\ relayed = Take(UpstreamResponse, Len(relayed))
    /\ (Returned /\ result = "Io") => clientOps = <<>>

\* The relay wrote upstream bytes to the client and then ended with an
\* error of the upstream's side.
C18_Witness ==
    /\ Returned /\ result = "Io" /\ u2c = "failed"
    /\ relayed # <<>> /\ clientOps = <<>>

-----------------------------------------------------------------------------
(* C19: parse_http_request changes the buffer only on success.  A call     *)
(* that returns Ok(None) or Err leaves the buffer as it was; a call that   *)
(* returns a ParsedRequest has removed from the front the head as the      *)
(* client sent it, from its first byte (the empty lines before the request *)
(* line included) through the empty line that ends it, and has left every  *)
(* byte after the head in the buffer, in order.                            *)
C19_BufferOnSuccess ==
    [][pc = "parse"
       => /\ pc' = "connect"
             => /\ client_buffer = RenderHead(wire) \o client_buffer'
                /\ parsed_len' = HeadLen
                /\ client_buffer' = SubSeq(stream, HeadLen + 1, pos)
          /\ pc' # "connect" => client_buffer' = client_buffer
      ]_vars

\* A head with a header was parsed out of a buffer that held body bytes
\* too.
C19_Witness ==
    /\ pc = "connect" /\ Len(req.headers) >= 1
    /\ client_buffer # <<>>
    /\ client_buffer = SubSeq(stream, parsed_len + 1, pos)

-----------------------------------------------------------------------------
\* The connection ended in a client read that failed: the head was not
\* parsed, and the connection closed though the client had not hung up,
\* the head was not malformed and the buffer was not full.
ReadError == Failed /\ ~Parsed /\ Entry = "Io"

\* After a failed read the outcome is Io, the client socket was neither
\* written to nor shut down, no upstream was connected to or written to,
\* and the buffer holds what had been read before.
C20_State ==
    ReadError
    => /\ result = "Io"
       /\ clientOps = <<>>
       /\ connects = 0 /\ upstream = "none" /\ upstreamOps = <<>>
       /\ ~Started /\ relayed = <<>>
       /\ client_buffer = Take(stream, pos)

\* The step of the failed read ends the connection and does nothing else,
\* and nothing follows it.
C20_Step ==
    [][/\ (pc = "read" /\ pc' = "closed" /\ ~eof')
          => /\ result' = "Io"
             /\ UNCHANGED <<pos, client_buffer, cap, clientOps, connects,
                            upstream, upstreamOps>>
       /\ ReadError => UNCHANGED vars
      ]_vars

(* C20: when a client read fails while the head is still incomplete, the   *)
(* connection terminates with Io: no response is written to the client,    *)
(* the client socket is not shut down, no upstream connection is opened,   *)
(* and no further read is made.                                            *)
C20_ReadError == []C20_State /\ C20_Step

\* A read failed after part of a head with a header had been read.
C20_Witness ==
    /\ ReadError /\ result = "Io"
    /\ 0 < pos /\ pos < HeadLen
    /\ Len(wire.headers) >= 1

=============================================================================
